---------------------------- MODULE Spec2Model ----------------------------
(***************************************************************************)
(* Ready Trader Go auto-traders of keanekwa/Optiver-Ready-Trader-Go.       *)
(*                                                                         *)
(* Two engines share the fields declared below:                            *)
(*   - src/ASModel.py: the Avellaneda-Stoikov quoting engine with the      *)
(*     fill ledger and the per-fill hedge (specifications Spec,            *)
(*     SpecRejects, SpecWarmUp, SpecQuoted, SpecErrors, SpecLate and       *)
(*     SpecClamped, which differ in the initial state and in the events    *)
(*     the venue sends, and SpecLive, which adds weak fairness of the      *)
(*     venue's book updates and final statuses);                           *)
(*   - src/archive/momentumArbitrage6.py: the arbitrage variant with the   *)
(*     pending-hedge counter and the per-status hedge (specifications      *)
(*     SpecMA and SpecMAInFlight).                                         *)
(* Every callback runs to completion before the next one starts, so each   *)
(* callback is one action.  Fields only one engine has keep their          *)
(* constructor value under the other engine's specification.               *)
(*                                                                         *)
(* Units.  Order and book prices are integer cents.  The books of the      *)
(* model have bid + ask a multiple of TICK_SIZE_IN_CENTS, so the mid price *)
(* s = (bid + ask) / (2 * TICK_SIZE_IN_CENTS) is a multiple of 1/2;        *)
(* mid_prices stores 2 * s.  T is stored in millionths (T = 1 is 1000000,  *)
(* the decrement 0.002 is 2000, the clamp value 0.000001 is 1).  With      *)
(* these units every float the engine computes is a rational the model     *)
(* computes exactly; the only irrational, ln(1.05), enters through ceil    *)
(* and is bracketed between two consecutive integers.                      *)
(***************************************************************************)
EXTENDS Integers, Sequences, FiniteSets, TLC

VARIABLES
    order_ids,               \* next value of itertools.count(1)
    bids, asks,              \* tracked primary order ids
    bid_id, bid_price,       \* bid slot
    ask_id, ask_price,       \* ask slot
    position,
    hedge_bids, hedge_asks,  \* ids of issued hedge orders
    hedge_position,
    mid_prices,              \* ASModel: list of admitted mid prices (2 * s)
    T,                       \* ASModel: time horizon, in millionths
    orders_history,          \* ASModel: ledger [price, volume]
    pending_hedge_position,  \* momentumArbitrage6
    future_price,            \* momentumArbitrage6
    momentum,                \* momentumArbitrage6: "None", "Up", "Down"
    bid_volume,              \* number of entries appended to self.bid_volume
    filled,                  \* venue: primary order id -> lots filled so far,
                             \* for the orders that can still be filled
    hedge_orders,            \* venue: hedge orders in flight, id -> [side, size]
    cancelled,               \* venue: ids whose cancel was requested
    start,                   \* [order_ids, bid_volume] of the initial state
    sent                     \* the intents the last callback emitted, in order

engine == <<order_ids, bids, asks, bid_id, bid_price, ask_id, ask_price,
            position, hedge_bids, hedge_asks, hedge_position, mid_prices, T,
            orders_history, pending_hedge_position, future_price, momentum,
            bid_volume>>

vars == <<order_ids, bids, asks, bid_id, bid_price, ask_id, ask_price,
          position, hedge_bids, hedge_asks, hedge_position, mid_prices, T,
          orders_history, pending_hedge_position, future_price, momentum,
          bid_volume, filled, hedge_orders, cancelled, start, sent>>

venue == <<filled, hedge_orders, cancelled>>

---------------------------------------------------------------------------
(* Program constants *)

LOT_SIZE == 10
POSITION_LIMIT == 100
TICK_SIZE_IN_CENTS == 100
MINIMUM_BID == 1
MAXIMUM_ASK == 2147483647
MIN_BID_NEAREST_TICK ==
    ((MINIMUM_BID + TICK_SIZE_IN_CENTS) \div TICK_SIZE_IN_CENTS) * TICK_SIZE_IN_CENTS
MAX_ASK_NEAREST_TICK ==
    (MAXIMUM_ASK \div TICK_SIZE_IN_CENTS) * TICK_SIZE_IN_CENTS
BID_LOT_SIZE == 10
ASK_LOT_SIZE == 10
lookback == 10
T_ONE == 1000000        \* self.T = 1
T_DECREMENT == 2000     \* self.T -= 0.002
T_CLAMP == 1            \* self.T = 0.000001
BAND == 10              \* the literal 10 of the hedge banding

FUTURE == "FUTURE"
ETF == "ETF"
BUY == "BUY"            \* Side.BUY, alias Side.BID
SELL == "SELL"          \* Side.SELL, alias Side.ASK
GOOD_FOR_DAY == "GOOD_FOR_DAY"

---------------------------------------------------------------------------
(* Bounds of the model *)

MaxNewOrders == 4       \* order ids issued after the initial state
MaxUpdates == 1         \* book updates quoted after the initial state

---------------------------------------------------------------------------
(* Arithmetic helpers *)

Abs(x) == IF x < 0 THEN -x ELSE x
Min(x, y) == IF x < y THEN x ELSE y
Max(x, y) == IF x > y THEN x ELSE y

RECURSIVE SumSeq(_)
SumSeq(q) == IF q = <<>> THEN 0 ELSE Head(q) + SumSeq(Tail(q))

RECURSIVE SumSq(_)
SumSq(q) == IF q = <<>> THEN 0 ELSE Head(q) * Head(q) + SumSq(Tail(q))

LastN(q, n) == SubSeq(q, Len(q) - n + 1, Len(q))

---------------------------------------------------------------------------
(* ASModel.py: pricing (on_order_book_update_message, lines 96-123) *)

\* 2 * s for a book with best bid b and best ask a.
MidTimes2(b, a) == (b + a) \div TICK_SIZE_IN_CENTS

\* int(s) != 0: s truncated towards zero is non-zero.
Admitted(h) == h \div 2 # 0

\* self.T after the branch of lines 101-104.
NextT(t) == IF t > 0 THEN t - T_DECREMENT ELSE T_CLAMP

\* The unbiased estimator (divisor n - 1) in the place of np.var.
Var400Unbiased(w) ==
    ((Len(w) * SumSq(w) - SumSeq(w) * SumSeq(w)) * Len(w)) \div (Len(w) - 1)

\* 400 * np.var(w) for a window w of lookback = 10 samples of 2 * s:
\* np.var is the population variance (n * sum(x^2) - sum(x)^2) / n^2.
Var400(w) == Len(w) * SumSq(w) - SumSeq(w) * SumSeq(w)

\* 400 * var of lines 99 and 111-112: 0 until lookback samples exist.
VarOf(mids) == IF Len(mids) >= lookback THEN Var400(LastN(mids, lookback)) ELSE 0

\* q of lines 97 and 111-113.
InventoryOf(mids, pos) == IF Len(mids) >= lookback THEN pos ELSE 0

\* int() in the place of math.ceil in line 122.
BidTicksTruncated(h, q, V, t) ==
    LET M == (2 * q + 1) * V
        P == 4000000 * (h % 2) - M * (t \div 2000) - 7806426
        R == M * (t % 2000) + 535
    IN  (h \div 2) + ((P + ((0 - R) \div 2000)) \div 8000000)

\* With gamma = 0.05 and k = 1:
\*   gamma * var * T / 2 = V * t / 16000000000      (V = 400 var, t = T * 10^6)
\*   q * gamma * var * T = 2 * q * V * t / 16000000000
\*   (1 / gamma) * ln(1 + gamma / k) = 20 ln 1.05 = e / 16000000000 with
\*   e = 15612852534.218..., that is 2000 * 7806426 + 534 < e < 2000 * 7806426 + 535.
\* math.ceil(r - delta / 2) = ceil((a - e) / 16000000000) for the integer
\* a = 8000000000 h - (2q + 1) V t, which is floor((a - 15612852535) / 16000000000) + 1.
\* The division by 2000 is done first and the whole ticks of h are taken out
\* of the quotient (8000000000 h = 16000000000 (h div 2) + 8000000000 (h mod 2))
\* to stay within 32-bit integers.
BidTicks(h, q, V, t) ==
    LET M == (2 * q + 1) * V
        P == 4000000 * (h % 2) - M * (t \div 2000) - 7806426
        R == M * (t % 2000) + 535
    IN  (h \div 2) + ((P + ((0 - R) \div 2000)) \div 8000000) + 1

\* math.ceil(r + delta / 2) = ceil((a + e) / 16000000000) for the integer
\* a = 8000000000 h - (2q - 1) V t, which is floor((a + 15612852534) / 16000000000) + 1.
AskTicks(h, q, V, t) ==
    LET M == (2 * q - 1) * V
        P == 4000000 * (h % 2) - M * (t \div 2000) + 7806426
        R == 534 - M * (t % 2000)
    IN  (h \div 2) + ((P + (R \div 2000)) \div 8000000) + 1

\* math.ceil(n / d) for d > 0.
Ceil(n, d) == 0 - ((0 - n) \div d)

\* r - delta / 2 <= n for an integer n: 16000000000 n - a + e >= 0 with the a
\* of BidTicks, divided by 2000.
RawBidAtMost(n, h, q, V, t) ==
    LET M == (2 * q + 1) * V
    IN  8000000 * (n - (h \div 2)) - 4000000 * (h % 2) + M * (t \div 2000)
            + 7806426 + ((M * (t % 2000) + 534) \div 2000) >= 0

\* r + delta / 2 <= n for an integer n: 16000000000 n - a - e >= 0 with the a
\* of AskTicks, divided by 2000.
RawAskAtMost(n, h, q, V, t) ==
    LET M == (2 * q - 1) * V
    IN  8000000 * (n - (h \div 2)) - 4000000 * (h % 2) + M * (t \div 2000)
            - 7806426 + ((M * (t % 2000) - 535) \div 2000) >= 0

\* floor(4000000 * delta) of lines 118-119: delta = (V t + e) / 8000000000,
\* so delta >= 0 exactly when this is >= 0.
Delta(V, t) ==
    V * (t \div 2000) + 7806426 + ((V * (t % 2000) + 534) \div 2000)

\* Lines 122-123.
NewBidPrice(h, q, V, t) == BidTicks(h, q, V, t) * TICK_SIZE_IN_CENTS
NewAskPrice(h, q, V, t) == AskTicks(h, q, V, t) * TICK_SIZE_IN_CENTS

---------------------------------------------------------------------------
(* Intents *)

NoSide == "-"

InsertOrder(id, side, price, size) ==
    [op |-> "insert", id |-> id, side |-> side, price |-> price, size |-> size,
     lifespan |-> GOOD_FOR_DAY]

\* A cancel sent under the id before the one in the slot.
CancelOrderBefore(id) ==
    [op |-> "cancel", id |-> id - 1, side |-> NoSide, price |-> 0, size |-> 0,
     lifespan |-> NoSide]

CancelOrder(id) ==
    [op |-> "cancel", id |-> id, side |-> NoSide, price |-> 0, size |-> 0,
     lifespan |-> NoSide]

\* A hedge order sent under the id before the one just drawn.
HedgeOrderReusingId(id, side, price, size) ==
    [op |-> "hedge", id |-> id - 1, side |-> side, price |-> price, size |-> size,
     lifespan |-> NoSide]

HedgeOrder(id, side, price, size) ==
    [op |-> "hedge", id |-> id, side |-> side, price |-> price, size |-> size,
     lifespan |-> NoSide]


---------------------------------------------------------------------------
(* ASModel.py: on_order_book_update_message *)

\* Line 81: no two-sided book.
NoTwoSidedBook(bid_prices, ask_prices) ==
    \/ Len(bid_prices) = 0
    \/ Len(ask_prices) = 0
    \/ bid_prices[1] = 0
    \/ ask_prices[1] = 0

\* The test of lines 125 and 128 without the price comparison.
SlotHoldsOrder(slot_id, slot_price, new_price) == slot_id # 0

\* Lines 125 and 128: the slot holds an order and the price moved.
MustCancel(slot_id, slot_price, new_price) ==
    slot_id # 0 /\ new_price \notin {slot_price, 0}

\* The bid guard with < in the place of <=.
BidHeadroomStrict(pos, nbids) ==
    pos < POSITION_LIMIT - (LOT_SIZE * nbids + LOT_SIZE)

\* Line 132: room for one more bid lot.
BidHeadroom(pos, nbids) ==
    pos <= POSITION_LIMIT - (LOT_SIZE * nbids + LOT_SIZE)

\* The ask guard without the lot of the order about to be inserted.
AskHeadroomWithoutNewLot(pos, nasks) ==
    pos >= -POSITION_LIMIT + LOT_SIZE * nasks

\* Line 138: room for one more ask lot.
AskHeadroom(pos, nasks) ==
    pos >= -POSITION_LIMIT + (LOT_SIZE * nasks + LOT_SIZE)

\* Lines 96-148: the quoting cycle on a two-sided FUTURE book.
ASQuote(bid_prices, ask_prices) ==
    LET h == MidTimes2(bid_prices[1], ask_prices[1])
        T1 == NextT(T)
        mids1 == IF Admitted(h) THEN Append(mid_prices, h) ELSE mid_prices
        V == VarOf(mids1)
        q == InventoryOf(mids1, position)
        new_bid_price == NewBidPrice(h, q, V, T1)
        new_ask_price == NewAskPrice(h, q, V, T1)
        cancel_bid == MustCancel(bid_id, bid_price, new_bid_price)
        cancel_ask == MustCancel(ask_id, ask_price, new_ask_price)
        bid_id1 == IF cancel_bid THEN 0 ELSE bid_id
        ask_id1 == IF cancel_ask THEN 0 ELSE ask_id
        insert_bid == /\ bid_id1 = 0
                      /\ new_bid_price # 0
                      /\ BidHeadroom(position, Cardinality(bids))
        order_ids1 == IF insert_bid THEN order_ids + 1 ELSE order_ids
        insert_ask == /\ ask_id1 = 0
                      /\ new_ask_price # 0
                      /\ AskHeadroom(position, Cardinality(asks))
    IN  /\ T' = T1
        /\ mid_prices' = mids1
        /\ bid_id' = IF insert_bid THEN order_ids ELSE bid_id1
        /\ bid_price' = IF insert_bid THEN new_bid_price ELSE bid_price
        /\ bids' = IF insert_bid THEN bids \cup {order_ids} ELSE bids
        /\ ask_id' = IF insert_ask THEN order_ids1 ELSE ask_id1
        /\ ask_price' = IF insert_ask THEN new_ask_price ELSE ask_price
        /\ asks' = IF insert_ask THEN asks \cup {order_ids1} ELSE asks
        /\ order_ids' = IF insert_ask THEN order_ids1 + 1 ELSE order_ids1
        /\ bid_volume' = bid_volume + 1
        /\ sent' = (IF cancel_bid THEN <<CancelOrder(bid_id)>> ELSE <<>>)
                \o (IF cancel_ask THEN <<CancelOrder(ask_id)>> ELSE <<>>)
                \o (IF insert_bid
                    THEN <<InsertOrder(order_ids, BUY, new_bid_price, BID_LOT_SIZE)>>
                    ELSE <<>>)
                \o (IF insert_ask
                    THEN <<InsertOrder(order_ids1, SELL, new_ask_price, ASK_LOT_SIZE)>>
                    ELSE <<>>)
        /\ filled' = [id \in DOMAIN filled \cup (order_ids .. order_ids' - 1) |->
                        IF id \in DOMAIN filled THEN filled[id] ELSE 0]
        /\ cancelled' = cancelled \cup (IF cancel_bid THEN {bid_id} ELSE {})
                                   \cup (IF cancel_ask THEN {ask_id} ELSE {})
        /\ UNCHANGED <<position, hedge_bids, hedge_asks, hedge_position,
                       orders_history, pending_hedge_position, future_price,
                       momentum, hedge_orders>>

\* Lines 69-148.
AS_on_order_book_update_message(instrument, ask_prices, bid_prices) ==
    IF NoTwoSidedBook(bid_prices, ask_prices) \/ instrument # FUTURE
    THEN /\ sent' = <<>>
         /\ UNCHANGED <<engine, venue>>
    ELSE ASQuote(bid_prices, ask_prices)

---------------------------------------------------------------------------
(* ASModel.py: on_order_filled_message *)

\* Lines 159-163: the position after a fill of `volume` lots of order `id`.
PositionAfterFill(id, volume) ==
    IF id \in bids THEN position + volume
    ELSE IF id \in asks THEN position - volume
    ELSE position

\* Lines 159-163: the value of the local `volume` from line 165 on.
SignedVolume(id, volume) ==
    IF id \in bids THEN volume
    ELSE IF id \in asks THEN -volume
    ELSE volume

\* A ledger that keeps its price when a fill nets the volume to zero.
LedgerKeepingPrice(E, volume, price) ==
    [price |-> IF E.volume = 0 THEN price ELSE E.price,
     volume |-> E.volume + volume]

\* A ledger that takes the price of the latest fill.
LedgerAtLastPrice(E, volume, price) ==
    IF E.volume + volume = 0 THEN [price |-> 0, volume |-> 0]
    ELSE [price |-> price, volume |-> E.volume + volume]

\* A ledger that keeps its price when a fill flips its direction.
LedgerFlipKeepingPrice(E, volume, price) ==
    LET new_vol == E.volume + volume
    IN  IF (volume > 0 /\ E.volume > 0) \/ (volume < 0 /\ E.volume < 0)
        THEN [price |-> (Abs(volume) * price + Abs(E.volume * E.price))
                            \div Abs(new_vol),
              volume |-> new_vol]
        ELSE IF Abs(volume) = Abs(E.volume)
             THEN [price |-> 0, volume |-> 0]
             ELSE [price |-> E.price, volume |-> new_vol]

\* Lines 166-181: the ledger after merging a fill of signed volume `volume`.
LedgerAfterFill(E, volume, price) ==
    LET new_vol == E.volume + volume
    IN  IF (volume > 0 /\ E.volume > 0) \/ (volume < 0 /\ E.volume < 0)
        THEN [price |-> (Abs(volume) * price + Abs(E.volume * E.price))
                            \div Abs(new_vol),
              volume |-> new_vol]
        ELSE IF Abs(volume) < Abs(E.volume)
             THEN [price |-> E.price, volume |-> new_vol]
             ELSE IF Abs(volume) = Abs(E.volume)
                  THEN [price |-> 0, volume |-> 0]
                  ELSE [price |-> price, volume |-> new_vol]

\* Lines 183-187.
HedgedPosNeeded(pos) ==
    LET hedged_pos_needed == -pos
    IN  IF hedged_pos_needed > 0 THEN Min(0, hedged_pos_needed - BAND)
        ELSE IF hedged_pos_needed < 0 THEN Max(0, hedged_pos_needed + BAND)
        ELSE hedged_pos_needed

\* Lines 189-203: bring hedge_position to `needed` with one hedge order.
ASHedge(needed) ==
    IF hedge_position < needed
    THEN /\ order_ids' = order_ids + 1
         /\ hedge_position' = hedge_position + (needed - hedge_position)
         /\ sent' = <<HedgeOrder(order_ids, BUY, MAX_ASK_NEAREST_TICK,
                                 needed - hedge_position)>>
         /\ hedge_bids' = hedge_bids \cup {order_ids}
         /\ hedge_orders' = [id \in DOMAIN hedge_orders \cup {order_ids} |->
                IF id = order_ids
                THEN [side |-> BUY, size |-> needed - hedge_position]
                ELSE hedge_orders[id]]
         /\ UNCHANGED hedge_asks
    ELSE IF hedge_position > needed
    THEN /\ order_ids' = order_ids + 1
         /\ hedge_position' = hedge_position - (hedge_position - needed)
         /\ sent' = <<HedgeOrder(order_ids, SELL, MIN_BID_NEAREST_TICK,
                                 hedge_position - needed)>>
         /\ hedge_asks' = hedge_asks \cup {order_ids}
         /\ hedge_orders' = [id \in DOMAIN hedge_orders \cup {order_ids} |->
                IF id = order_ids
                THEN [side |-> SELL, size |-> hedge_position - needed]
                ELSE hedge_orders[id]]
         /\ UNCHANGED hedge_bids
    ELSE /\ sent' = <<>>
         /\ UNCHANGED <<order_ids, hedge_position, hedge_bids, hedge_asks,
                        hedge_orders>>

\* Lines 150-203.
AS_on_order_filled_message(client_order_id, price, volume) ==
    /\ position' = PositionAfterFill(client_order_id, volume)
    /\ orders_history' = LedgerAfterFill(orders_history,
                             SignedVolume(client_order_id, volume), price)
    /\ ASHedge(HedgedPosNeeded(position'))
    /\ UNCHANGED <<bids, asks, bid_id, bid_price, ask_id, ask_price, mid_prices,
                   T, pending_hedge_position, future_price, momentum, bid_volume>>

---------------------------------------------------------------------------
(* ASModel.py: on_order_status_message, on_error_message and the callbacks
   that only log *)

\* A discard that leaves the set as it was.
KeepTracked(ids, id) == ids

\* Lines 227-228: set.discard.
Discard(ids, id) == ids \ {id}

\* A status handler that clears the slot of the side the order is tracked on,
\* whichever order the slot holds.
StatusClearsSideSlot(client_order_id, remaining_volume) ==
    /\ IF remaining_volume = 0
       THEN /\ bid_id' = IF client_order_id \in bids THEN 0 ELSE bid_id
            /\ ask_id' = IF client_order_id \in asks THEN 0 ELSE ask_id
            /\ bids' = Discard(bids, client_order_id)
            /\ asks' = Discard(asks, client_order_id)
       ELSE UNCHANGED <<bid_id, ask_id, bids, asks>>
    /\ sent' = <<>>
    /\ UNCHANGED <<order_ids, bid_price, ask_price, position, hedge_bids,
                   hedge_asks, hedge_position, mid_prices, T, orders_history,
                   pending_hedge_position, future_price, momentum, bid_volume>>

\* A status handler that discards the order and leaves the slots alone.
StatusKeepsSlot(client_order_id, remaining_volume) ==
    /\ IF remaining_volume = 0
       THEN /\ bids' = Discard(bids, client_order_id)
            /\ asks' = Discard(asks, client_order_id)
       ELSE UNCHANGED <<bids, asks>>
    /\ sent' = <<>>
    /\ UNCHANGED <<order_ids, bid_id, ask_id, bid_price, ask_price, position,
                   hedge_bids, hedge_asks, hedge_position, mid_prices, T,
                   orders_history, pending_hedge_position, future_price,
                   momentum, bid_volume>>

\* The status handler without the test of line 220 on the remaining volume.
StatusOfAnyVolumeEnds(client_order_id, remaining_volume) ==
    /\ bid_id' = IF client_order_id = bid_id THEN 0 ELSE bid_id
    /\ ask_id' = IF client_order_id # bid_id /\ client_order_id = ask_id
                 THEN 0 ELSE ask_id
    /\ bids' = Discard(bids, client_order_id)
    /\ asks' = Discard(asks, client_order_id)
    /\ sent' = <<>>
    /\ UNCHANGED <<order_ids, bid_price, ask_price, position, hedge_bids,
                   hedge_asks, hedge_position, mid_prices, T, orders_history,
                   pending_hedge_position, future_price, momentum, bid_volume>>

\* A status handler that ends only the order a slot names: an order whose
\* slot a cancel has cleared stays tracked.
StatusEndsSlotOrderOnly(client_order_id, remaining_volume) ==
    /\ IF remaining_volume = 0
       THEN /\ bid_id' = IF client_order_id = bid_id THEN 0 ELSE bid_id
            /\ ask_id' = IF client_order_id # bid_id /\ client_order_id = ask_id
                         THEN 0 ELSE ask_id
            /\ bids' = IF client_order_id = bid_id
                       THEN Discard(bids, client_order_id) ELSE bids
            /\ asks' = IF client_order_id = ask_id
                       THEN Discard(asks, client_order_id) ELSE asks
       ELSE UNCHANGED <<bid_id, ask_id, bids, asks>>
    /\ sent' = <<>>
    /\ UNCHANGED <<order_ids, bid_price, ask_price, position, hedge_bids,
                   hedge_asks, hedge_position, mid_prices, T, orders_history,
                   pending_hedge_position, future_price, momentum, bid_volume>>

\* Lines 220-228.  fill_volume and fees are only logged.
AS_on_order_status_message(client_order_id, remaining_volume) ==
    /\ IF remaining_volume = 0
       THEN /\ bid_id' = IF client_order_id = bid_id THEN 0 ELSE bid_id
            /\ ask_id' = IF client_order_id # bid_id /\ client_order_id = ask_id
                         THEN 0 ELSE ask_id
            /\ bids' = Discard(bids, client_order_id)
            /\ asks' = Discard(asks, client_order_id)
       ELSE UNCHANGED <<bid_id, ask_id, bids, asks>>
    /\ sent' = <<>>
    /\ UNCHANGED <<order_ids, bid_price, ask_price, position, hedge_bids,
                   hedge_asks, hedge_position, mid_prices, T, orders_history,
                   pending_hedge_position, future_price, momentum, bid_volume>>

\* The test of line 56 without the asks.
ErrorNamesTrackedBid(client_order_id) ==
    client_order_id # 0 /\ client_order_id \in bids

\* Line 56: the error names an order the engine tracks.
ErrorNamesTrackedOrder(client_order_id) ==
    client_order_id # 0 /\ (client_order_id \in bids \/ client_order_id \in asks)

\* An error taken as the end of the order in the bid slot, whatever id it
\* names.
ErrorEndsBidSlot(client_order_id) == AS_on_order_status_message(bid_id, 0)

\* Lines 49-57.
AS_on_error_message(client_order_id) ==
    IF ErrorNamesTrackedOrder(client_order_id)
    THEN AS_on_order_status_message(client_order_id, 0)
    ELSE /\ sent' = <<>>
         /\ UNCHANGED engine

\* Lines 59-67: the hedge fill is logged, nothing else.
AS_on_hedge_filled_message(client_order_id, price, volume) ==
    /\ sent' = <<>>
    /\ UNCHANGED engine

\* Lines 230-242: the trade ticks are logged, nothing else.
AS_on_trade_ticks_message(instrument) ==
    /\ sent' = <<>>
    /\ UNCHANGED engine

---------------------------------------------------------------------------
(* archive/momentumArbitrage6.py: on_order_book_update_message *)

\* Lines 108-110: the quote of one side, 0 when that side of the book is empty.
MAQuotePrice(best, pos) ==
    IF best # 0
    THEN best + (-(pos \div LOT_SIZE) * TICK_SIZE_IN_CENTS)
    ELSE 0

\* Lines 116-120: bid_volumes[-1:-5] and ask_volumes[-1:-5] are empty slices
\* of the arguments, so the comparison is 0 < 0.
MAMomentum(n_logged, old) ==
    IF n_logged >= 5 THEN (IF 0 < 0 THEN "Up" ELSE "Down") ELSE old

\* Lines 105-141: the quoting cycle on an ETF book once a future price is known.
MAQuote(bid_prices, ask_prices) ==
    LET etf_price == (ask_prices[1] + bid_prices[1]) \div 2
        new_bid_price == MAQuotePrice(bid_prices[1], position)
        new_ask_price == MAQuotePrice(ask_prices[1], position)
        cancel_bid == MustCancel(bid_id, bid_price, new_bid_price)
        cancel_ask == MustCancel(ask_id, ask_price, new_ask_price)
        bid_id1 == IF cancel_bid THEN 0 ELSE bid_id
        ask_id1 == IF cancel_ask THEN 0 ELSE ask_id
        insert_bid == /\ bid_id1 = 0
                      /\ new_bid_price # 0
                      /\ etf_price < future_price
                      /\ BidHeadroom(position, Cardinality(bids))
        order_ids1 == IF insert_bid THEN order_ids + 1 ELSE order_ids
        insert_ask == /\ ask_id1 = 0
                      /\ new_ask_price # 0
                      /\ etf_price > future_price
                      /\ AskHeadroom(position, Cardinality(asks))
    IN  /\ bid_volume' = bid_volume + 1
        /\ momentum' = MAMomentum(bid_volume + 1, momentum)
        /\ bid_id' = IF insert_bid THEN order_ids ELSE bid_id1
        /\ bid_price' = IF insert_bid THEN new_bid_price ELSE bid_price
        /\ bids' = IF insert_bid THEN bids \cup {order_ids} ELSE bids
        /\ ask_id' = IF insert_ask THEN order_ids1 ELSE ask_id1
        /\ ask_price' = IF insert_ask THEN new_ask_price ELSE ask_price
        /\ asks' = IF insert_ask THEN asks \cup {order_ids1} ELSE asks
        /\ order_ids' = IF insert_ask THEN order_ids1 + 1 ELSE order_ids1
        /\ sent' = (IF cancel_bid THEN <<CancelOrder(bid_id)>> ELSE <<>>)
                \o (IF cancel_ask THEN <<CancelOrder(ask_id)>> ELSE <<>>)
                \o (IF insert_bid
                    THEN <<InsertOrder(order_ids, BUY, new_bid_price, LOT_SIZE)>>
                    ELSE <<>>)
                \o (IF insert_ask
                    THEN <<InsertOrder(order_ids1, SELL, new_ask_price, LOT_SIZE)>>
                    ELSE <<>>)
        /\ filled' = [id \in DOMAIN filled \cup (order_ids .. order_ids' - 1) |->
                        IF id \in DOMAIN filled THEN filled[id] ELSE 0]
        /\ cancelled' = cancelled \cup (IF cancel_bid THEN {bid_id} ELSE {})
                                   \cup (IF cancel_ask THEN {ask_id} ELSE {})
        /\ UNCHANGED <<position, hedge_bids, hedge_asks, hedge_position,
                       mid_prices, T, orders_history, pending_hedge_position,
                       future_price, hedge_orders>>

\* Lines 90-141.  ask_prices[0] of an empty list raises IndexError before any
\* field is assigned, which leaves the engine as it was.
MA_on_order_book_update_message(instrument, ask_prices, bid_prices) ==
    IF instrument = FUTURE
    THEN /\ future_price' = IF Len(ask_prices) = 0 \/ Len(bid_prices) = 0
                            THEN future_price
                            ELSE (ask_prices[1] + bid_prices[1]) \div 2
         /\ sent' = <<>>
         /\ UNCHANGED <<order_ids, bids, asks, bid_id, bid_price, ask_id,
                        ask_price, position, hedge_bids, hedge_asks,
                        hedge_position, mid_prices, T, orders_history,
                        pending_hedge_position, momentum, bid_volume, venue>>
    ELSE IF instrument = ETF /\ future_price # 0
              /\ Len(ask_prices) # 0 /\ Len(bid_prices) # 0
         THEN MAQuote(bid_prices, ask_prices)
         ELSE /\ sent' = <<>>
              /\ UNCHANGED <<engine, venue>>

---------------------------------------------------------------------------
(* archive/momentumArbitrage6.py: the hedge *)

\* ceil(volume * 0.9) and floor(volume * 1.1): for the volumes 1..10 of one
\* lot the floats give ceil(9 volume / 10) and floor(11 volume / 10).
CeilNineTenths(volume) == (9 * volume + 9) \div 10
FloorElevenTenths(volume) == (11 * volume) \div 10

\* The venue's record of a hedge order just sent.
WithHedgeOrder(id, side, size) ==
    [i \in DOMAIN hedge_orders \cup {id} |->
        IF i = id THEN [side |-> side, size |-> size]
        ELSE hedge_orders[i]]

\* Line 161: the sell hedge of a bid fill is sent only within the limit.
SellHedgeAllowed(hedge_volume, potential_total_hedge) ==
    hedge_volume # 0 /\ potential_total_hedge >= -POSITION_LIMIT

\* Line 175: the buy hedge of an ask fill is sent only within the limit.
BuyHedgeAllowed(hedge_volume, potential_total_hedge) ==
    hedge_volume # 0 /\ potential_total_hedge <= POSITION_LIMIT

\* Lines 143-179.
MA_on_order_filled_message(client_order_id, price, volume) ==
    /\ UNCHANGED <<bids, asks, bid_id, bid_price, ask_id, ask_price,
                   hedge_position, mid_prices, T, orders_history, future_price,
                   momentum, bid_volume>>
    /\ IF client_order_id \in bids
       THEN LET hedge_volume == IF momentum = "Up" THEN CeilNineTenths(volume)
                                ELSE FloorElevenTenths(volume)
                potential_total_hedge ==
                    hedge_position + pending_hedge_position - hedge_volume
            IN  /\ position' = position + volume
                /\ IF SellHedgeAllowed(hedge_volume, potential_total_hedge)
                   THEN /\ order_ids' = order_ids + 1
                        /\ pending_hedge_position' =
                               pending_hedge_position - hedge_volume
                        /\ sent' = <<HedgeOrder(order_ids, SELL,
                                        MIN_BID_NEAREST_TICK, hedge_volume)>>
                        /\ hedge_asks' = hedge_asks \cup {order_ids}
                        /\ hedge_orders' = WithHedgeOrder(order_ids, SELL, hedge_volume)
                        /\ UNCHANGED hedge_bids
                   ELSE /\ sent' = <<>>
                        /\ UNCHANGED <<order_ids, pending_hedge_position,
                                       hedge_asks, hedge_bids, hedge_orders>>
       ELSE IF client_order_id \in asks
       THEN LET hedge_volume == IF momentum = "Down" THEN CeilNineTenths(volume)
                                ELSE FloorElevenTenths(volume)
                potential_total_hedge ==
                    hedge_position + pending_hedge_position + hedge_volume
            IN  /\ position' = position - volume
                /\ IF BuyHedgeAllowed(hedge_volume, potential_total_hedge)
                   THEN /\ order_ids' = order_ids + 1
                        /\ pending_hedge_position' =
                               pending_hedge_position + hedge_volume
                        /\ sent' = <<HedgeOrder(order_ids, BUY,
                                        MAX_ASK_NEAREST_TICK, hedge_volume)>>
                        /\ hedge_bids' = hedge_bids \cup {order_ids}
                        /\ hedge_orders' = WithHedgeOrder(order_ids, BUY, hedge_volume)
                        /\ UNCHANGED hedge_asks
                   ELSE /\ sent' = <<>>
                        /\ UNCHANGED <<order_ids, pending_hedge_position,
                                       hedge_asks, hedge_bids, hedge_orders>>
       ELSE /\ sent' = <<>>
            /\ UNCHANGED <<position, order_ids, pending_hedge_position,
                           hedge_asks, hedge_bids, hedge_orders>>

\* Lines 203-219: the hedge logic that runs on every status message.
MAStatusHedge ==
    LET hedged_pos_needed == -position
    IN  IF hedge_position < hedged_pos_needed - BAND
        THEN LET buy_pos == (hedged_pos_needed - BAND) - hedge_position
             IN  /\ order_ids' = order_ids + 1
                 /\ pending_hedge_position' = pending_hedge_position + buy_pos
                 /\ sent' = <<HedgeOrder(order_ids, BUY, MAX_ASK_NEAREST_TICK,
                                         buy_pos)>>
                 /\ hedge_bids' = hedge_bids \cup {order_ids}
                 /\ hedge_orders' = WithHedgeOrder(order_ids, BUY, buy_pos)
                 /\ UNCHANGED hedge_asks
        ELSE IF hedge_position > hedged_pos_needed + BAND
        THEN LET sell_pos == hedge_position - (hedged_pos_needed + BAND)
             IN  /\ order_ids' = order_ids + 1
                 /\ pending_hedge_position' = pending_hedge_position - sell_pos
                 /\ sent' = <<HedgeOrder(order_ids, SELL, MIN_BID_NEAREST_TICK,
                                         sell_pos)>>
                 /\ hedge_asks' = hedge_asks \cup {order_ids}
                 /\ hedge_orders' = WithHedgeOrder(order_ids, SELL, sell_pos)
                 /\ UNCHANGED hedge_bids
        ELSE /\ sent' = <<>>
             /\ UNCHANGED <<order_ids, pending_hedge_position, hedge_bids,
                            hedge_asks, hedge_orders>>

\* Lines 181-219.  fill_volume and fees are only logged.
MA_on_order_status_message(client_order_id, remaining_volume) ==
    /\ IF remaining_volume = 0
       THEN /\ bid_id' = IF client_order_id = bid_id THEN 0 ELSE bid_id
            /\ ask_id' = IF client_order_id # bid_id /\ client_order_id = ask_id
                         THEN 0 ELSE ask_id
            /\ bids' = bids \ {client_order_id}
            /\ asks' = asks \ {client_order_id}
       ELSE UNCHANGED <<bid_id, ask_id, bids, asks>>
    /\ MAStatusHedge
    /\ UNCHANGED <<bid_price, ask_price, position, hedge_position, mid_prices,
                   T, orders_history, future_price, momentum, bid_volume>>

\* Lines 60-68.
MA_on_error_message(client_order_id) ==
    IF ErrorNamesTrackedOrder(client_order_id)
    THEN MA_on_order_status_message(client_order_id, 0)
    ELSE /\ sent' = <<>>
         /\ UNCHANGED <<engine, hedge_orders>>

\* A hedge fill that books the volume and leaves the pending counter alone.
HedgeFillKeepsPending(client_order_id, price, volume) ==
    /\ hedge_position' =
           IF client_order_id \in hedge_bids THEN hedge_position + volume
           ELSE IF client_order_id \in hedge_asks THEN hedge_position - volume
           ELSE hedge_position
    /\ sent' = <<>>
    /\ UNCHANGED <<order_ids, bids, asks, bid_id, bid_price, ask_id, ask_price,
                   position, hedge_bids, hedge_asks, mid_prices, T,
                   orders_history, future_price, momentum, bid_volume,
                   pending_hedge_position>>

\* Lines 70-88.
MA_on_hedge_filled_message(client_order_id, price, volume) ==
    /\ hedge_position' =
           IF client_order_id \in hedge_bids THEN hedge_position + volume
           ELSE IF client_order_id \in hedge_asks THEN hedge_position - volume
           ELSE hedge_position
    /\ pending_hedge_position' =
           IF client_order_id \in hedge_bids THEN pending_hedge_position - volume
           ELSE IF client_order_id \in hedge_asks THEN pending_hedge_position + volume
           ELSE pending_hedge_position
    /\ sent' = <<>>
    /\ UNCHANGED <<order_ids, bids, asks, bid_id, bid_price, ask_id, ask_price,
                   position, hedge_bids, hedge_asks, mid_prices, T,
                   orders_history, future_price, momentum, bid_volume>>

\* Lines 221-233: the trade ticks are logged, nothing else.
MA_on_trade_ticks_message(instrument) ==
    /\ sent' = <<>>
    /\ UNCHANGED engine

---------------------------------------------------------------------------
(* Initial states *)

\* The state the constructor leaves (ASModel.py lines 20-46,
\* momentumArbitrage6.py lines 46-58).
Boot ==
    /\ order_ids = 1
    /\ bids = {} /\ asks = {}
    /\ ask_id = 0 /\ ask_price = 0 /\ bid_id = 0 /\ bid_price = 0
    /\ position = 0
    /\ hedge_bids = {} /\ hedge_asks = {}
    /\ hedge_position = 0
    /\ mid_prices = <<>>
    /\ T = T_ONE
    /\ orders_history = [price |-> 0, volume |-> 0]
    /\ pending_hedge_position = 0
    /\ future_price = 0
    /\ momentum = "None"
    /\ bid_volume = 0
    /\ filled = <<>>
    /\ hedge_orders = <<>>
    /\ cancelled = {}

\* The inputs of the replayed prefix: the book 100/200 (2 * s = 3, quoted
\* 100/300 while fewer than lookback samples exist) and fills at the bid.
ReplayMid == MidTimes2(100, 200)
ReplayBid == NewBidPrice(ReplayMid, 0, 0, T_ONE)
ReplayAsk == NewAskPrice(ReplayMid, 0, 0, T_ONE)
ReplayFillPrice == ReplayBid

\* ASModel.py after k > 0 round trips on the bid side: k times, the book
\* 100/200 arrives (the first update inserts bid 1 and ask 2, each later one
\* a new bid), the bid is filled in full at 100 (position grows by 10, the
\* banded hedge target stays 0, so no hedge order is issued) and its final
\* status clears the slot.  The ask 2 rests through all of it and ends last,
\* with nothing filled (a status with remaining volume 0).  The orders
\* 1 .. k + 1 are closed at the venue and send no further events.
ASLongAfter(k) ==
    /\ order_ids = k + 2
    /\ bids = {} /\ asks = {}
    /\ ask_id = 0 /\ ask_price = ReplayAsk /\ bid_id = 0 /\ bid_price = ReplayBid
    /\ position = LOT_SIZE * k
    /\ hedge_bids = {} /\ hedge_asks = {}
    /\ hedge_position = 0
    /\ mid_prices = [i \in 1..k |-> ReplayMid]
    /\ T = T_ONE - T_DECREMENT * k
    /\ orders_history = [price |-> ReplayFillPrice, volume |-> LOT_SIZE * k]
    /\ pending_hedge_position = 0
    /\ future_price = 0
    /\ momentum = "None"
    /\ bid_volume = k
    /\ filled = <<>>
    /\ hedge_orders = <<>>
    /\ cancelled = {}

\* The mirror image: k round trips on the ask side while the bid 1 rests; it
\* ends last, with nothing filled.
ASShortAfter(k) ==
    /\ order_ids = k + 2
    /\ bids = {} /\ asks = {}
    /\ ask_id = 0 /\ ask_price = ReplayAsk /\ bid_id = 0 /\ bid_price = ReplayBid
    /\ position = -(LOT_SIZE * k)
    /\ hedge_bids = {} /\ hedge_asks = {}
    /\ hedge_position = 0
    /\ mid_prices = [i \in 1..k |-> ReplayMid]
    /\ T = T_ONE - T_DECREMENT * k
    /\ orders_history = [price |-> ReplayFillPrice, volume |-> -(LOT_SIZE * k)]
    /\ pending_hedge_position = 0
    /\ future_price = 0
    /\ momentum = "None"
    /\ bid_volume = k
    /\ filled = <<>>
    /\ hedge_orders = <<>>
    /\ cancelled = {}

\* ASModel.py after its first book update, 100/200: the bid 1 and the ask 2
\* rest at the venue, nothing is filled.
ASQuoted ==
    /\ order_ids = 3
    /\ bids = {1} /\ asks = {2}
    /\ ask_id = 2 /\ ask_price = ReplayAsk /\ bid_id = 1 /\ bid_price = ReplayBid
    /\ position = 0
    /\ hedge_bids = {} /\ hedge_asks = {}
    /\ hedge_position = 0
    /\ mid_prices = <<ReplayMid>>
    /\ T = T_ONE - T_DECREMENT
    /\ orders_history = [price |-> 0, volume |-> 0]
    /\ pending_hedge_position = 0
    /\ future_price = 0
    /\ momentum = "None"
    /\ bid_volume = 1
    /\ filled = (1 :> 0) @@ (2 :> 0)
    /\ hedge_orders = <<>>
    /\ cancelled = {}

\* self.T after k quoting updates.
TAfter(k) ==
    LET down == T_ONE \div T_DECREMENT
    IN  IF k <= down THEN T_ONE - k * T_DECREMENT
        ELSE IF (k - down) % 2 = 1 THEN T_CLAMP
        ELSE T_CLAMP - T_DECREMENT

\* ASModel.py after k > 0 book updates 100/200 and nothing else: the bid 1
\* and the ask 2 of the first update rest at 100/300 (equal samples have
\* variance 0, so every later update computes the same quotes).
ASRestingAfter(k) ==
    /\ order_ids = 3
    /\ bids = {1} /\ asks = {2}
    /\ ask_id = 2 /\ ask_price = ReplayAsk /\ bid_id = 1 /\ bid_price = ReplayBid
    /\ position = 0
    /\ hedge_bids = {} /\ hedge_asks = {}
    /\ hedge_position = 0
    /\ mid_prices = [i \in 1..k |-> ReplayMid]
    /\ T = TAfter(k)
    /\ orders_history = [price |-> 0, volume |-> 0]
    /\ pending_hedge_position = 0
    /\ future_price = 0
    /\ momentum = "None"
    /\ bid_volume = k
    /\ filled = (1 :> 0) @@ (2 :> 0)
    /\ hedge_orders = <<>>
    /\ cancelled = {}

\* Updates after which T has run down: 500 decrements of 0.002 leave the
\* float -8.7e-16 (0 in millionths), the next update sets 0.000001.
LateUpdates == T_ONE \div T_DECREMENT + 1

\* Round trips replayed before the model takes over: none (the constructor's
\* state), nine on the bid side (one order short of the position limit) and
\* ten on the ask side (at the limit).
StartRoundTrips == {0, 9, -10}

Init ==
    /\ \E k \in StartRoundTrips :
          IF k = 0 THEN Boot
          ELSE IF k > 0 THEN ASLongAfter(k) ELSE ASShortAfter(-k)
    /\ start = [order_ids |-> order_ids, bid_volume |-> bid_volume]
    /\ sent = <<>>

---------------------------------------------------------------------------
(* The venue: the events it can deliver *)

\* One side of a book as the callback receives it; only its emptiness and its
\* first element are read.
Books ==
    { [bid_prices |-> <<>>,    ask_prices |-> <<>>],
      [bid_prices |-> <<0>>,   ask_prices |-> <<200>>],
      [bid_prices |-> <<100>>, ask_prices |-> <<200>>],
      [bid_prices |-> <<200>>, ask_prices |-> <<300>>],
      [bid_prices |-> <<200>>, ask_prices |-> <<100>>] }

Instruments == {FUTURE, ETF}
FillPrices == {100, 102}
FillVolumes == {5, 10}

\* The orders a status or error message can name: the ones the venue can
\* still fill and the first order the engine ever issued, whatever became
\* of it.
KnownIds(next_id) == DOMAIN filled \cup {id \in {1} : id < next_id}

\* The bounds: order ids issued and FUTURE updates quoted since the initial
\* state.
IdsIssued(next_id) == next_id - start.order_ids
UpdatesQuoted(updates) == updates - start.bid_volume

\* The venue never fills an order for more than its inserted size.
CanFill(id, volume) == id \in DOMAIN filled /\ filled[id] + volume <= LOT_SIZE

\* The remaining volume a status message reports: 0 ends the order.
RemainingVolumes == {0, LOT_SIZE \div 2}

BookUpdate ==
    \E instrument \in Instruments, book \in Books :
        /\ UNCHANGED start
        /\ AS_on_order_book_update_message(instrument, book.ask_prices,
                                           book.bid_prices)
        /\ IdsIssued(order_ids') <= MaxNewOrders
        /\ UpdatesQuoted(bid_volume') <= MaxUpdates

OrderFilled ==
    \E id \in DOMAIN filled, price \in FillPrices, volume \in FillVolumes :
        /\ UNCHANGED <<cancelled, start>>
        /\ CanFill(id, volume)
        /\ AS_on_order_filled_message(id, price, volume)
        /\ IdsIssued(order_ids') <= MaxNewOrders
        /\ filled' = [filled EXCEPT ![id] = @ + volume]

OrderStatus ==
    \E id \in KnownIds(order_ids), remaining_volume \in RemainingVolumes :
        /\ UNCHANGED <<venue, start>>
        /\ AS_on_order_status_message(id, remaining_volume)

\* The venue's record without hedge order `id`.
WithoutHedgeOrder(id) == [i \in DOMAIN hedge_orders \ {id} |-> hedge_orders[i]]

\* An error names no order (0), a primary order or a hedge order in flight;
\* a rejected hedge order is gone from the venue.
ErrorMessage ==
    \E id \in {0} \cup KnownIds(order_ids) \cup DOMAIN hedge_orders :
        /\ UNCHANGED <<filled, cancelled, start>>
        /\ hedge_orders' = WithoutHedgeOrder(id)
        /\ AS_on_error_message(id)

HedgeFilled ==
    \E id \in DOMAIN hedge_orders, price \in FillPrices :
        /\ UNCHANGED <<filled, cancelled, start>>
        /\ AS_on_hedge_filled_message(id, price, hedge_orders[id].size)
        /\ hedge_orders' = WithoutHedgeOrder(id)

TradeTicks ==
    \E instrument \in Instruments :
        /\ UNCHANGED <<venue, start>>
        /\ AS_on_trade_ticks_message(instrument)

Next ==
    \/ BookUpdate
    \/ OrderFilled
    \/ OrderStatus
    \/ ErrorMessage
    \/ HedgeFilled
    \/ TradeTicks

Spec == Init /\ [][Next]_vars

\* The same engine while the window fills and just after it is full: one
\* round trip on the bid side (one sample, position 10) and ten on the ask
\* side (ten samples, position -100).
WarmUpRoundTrips == {1, -10}

InitWarmUp ==
    /\ \E k \in WarmUpRoundTrips :
          IF k > 0 THEN ASLongAfter(k) ELSE ASShortAfter(-k)
    /\ start = [order_ids |-> order_ids, bid_volume |-> bid_volume]
    /\ sent = <<>>

SpecWarmUp == InitWarmUp /\ [][Next]_vars

\* The same engine under a venue that fills no hedge order: a hedge order
\* leaves the venue only by being rejected.
NextRejects ==
    \/ BookUpdate
    \/ OrderFilled
    \/ OrderStatus
    \/ ErrorMessage
    \/ TradeTicks

SpecRejects == Init /\ [][NextRejects]_vars

\* The same engine with both quotes resting, under a venue that fills an
\* order in one piece.
InitQuoted ==
    /\ ASQuoted
    /\ start = [order_ids |-> order_ids, bid_volume |-> bid_volume]
    /\ sent = <<>>

OrderFilledInFull ==
    \E id \in DOMAIN filled :
        /\ UNCHANGED <<cancelled, start>>
        /\ CanFill(id, LOT_SIZE)
        /\ AS_on_order_filled_message(id, ReplayFillPrice, LOT_SIZE)
        /\ IdsIssued(order_ids') <= MaxNewOrders
        /\ filled' = [filled EXCEPT ![id] = @ + LOT_SIZE]

NextQuoted ==
    \/ BookUpdate
    \/ OrderFilledInFull
    \/ OrderStatus
    \/ ErrorMessage
    \/ TradeTicks

SpecQuoted == InitQuoted /\ [][NextQuoted]_vars

\* The same engine late in the session, both quotes still resting.
InitLate ==
    /\ ASRestingAfter(LateUpdates)
    /\ start = [order_ids |-> order_ids, bid_volume |-> bid_volume]
    /\ sent = <<>>

\* The books of a late session: the book of all updates so far, and one far
\* above it.
LateBooks ==
    { [bid_prices |-> <<100>>,   ask_prices |-> <<200>>],
      [bid_prices |-> <<46700>>, ask_prices |-> <<46800>>] }

LateBookUpdate ==
    \E instrument \in Instruments, book \in LateBooks :
        /\ UNCHANGED start
        /\ AS_on_order_book_update_message(instrument, book.ask_prices,
                                           book.bid_prices)
        /\ IdsIssued(order_ids') <= MaxNewOrders
        /\ UpdatesQuoted(bid_volume') <= MaxUpdates

NextLate ==
    \/ LateBookUpdate
    \/ OrderFilledInFull
    \/ OrderStatus
    \/ ErrorMessage
    \/ TradeTicks

SpecLate == InitLate /\ [][NextLate]_vars

\* One update later: T has gone below 0.
InitClamped ==
    /\ ASRestingAfter(LateUpdates + 1)
    /\ start = [order_ids |-> order_ids, bid_volume |-> bid_volume]
    /\ sent = <<>>

SpecClamped == InitClamped /\ [][NextLate]_vars

\* The same again under a venue that sends no status message: an order
\* leaves the tracked sets only through on_error_message.
NextErrors ==
    \/ BookUpdate
    \/ OrderFilledInFull
    \/ ErrorMessage
    \/ TradeTicks

SpecErrors == InitQuoted /\ [][NextErrors]_vars

\* The replay of ASLongAfter and ASShortAfter at a higher book, 1000/1100
\* (2 * s = 21, quoted 1000/1200 while the variance is 0), continued by one
\* more update of the same book: after k round trips on one side the engine
\* holds LOT_SIZE * k lots and both quotes of the last update rest at the
\* venue, unfilled.  The bids were filled at their price, the asks at theirs.
HighMid == MidTimes2(1000, 1100)
HighBid == NewBidPrice(HighMid, 0, 0, T_ONE)
HighAsk == NewAskPrice(HighMid, 0, 0, T_ONE)

ASQuotedAfter(k, long) ==
    /\ order_ids = k + 4
    /\ bids = {k + 2} /\ asks = {k + 3}
    /\ ask_id = k + 3 /\ ask_price = HighAsk /\ bid_id = k + 2 /\ bid_price = HighBid
    /\ position = IF long THEN LOT_SIZE * k ELSE -(LOT_SIZE * k)
    /\ hedge_bids = {} /\ hedge_asks = {}
    /\ hedge_position = 0
    /\ mid_prices = [i \in 1..(k + 1) |-> HighMid]
    /\ T = T_ONE - T_DECREMENT * (k + 1)
    /\ orders_history = IF long THEN [price |-> HighBid, volume |-> LOT_SIZE * k]
                        ELSE [price |-> HighAsk, volume |-> -(LOT_SIZE * k)]
    /\ pending_hedge_position = 0
    /\ future_price = 0
    /\ momentum = "None"
    /\ bid_volume = k + 1
    /\ filled = ((k + 2) :> 0) @@ ((k + 3) :> 0)
    /\ hedge_orders = <<>>
    /\ cancelled = {}

\* The same engine one order short of a position limit, on either side, both
\* quotes resting, under a venue that keeps sending two-sided FUTURE books
\* and delivers the final status of every order it has closed.
LiveRoundTrips == POSITION_LIMIT \div LOT_SIZE - 1

InitLive ==
    /\ \E long \in BOOLEAN : ASQuotedAfter(LiveRoundTrips, long)
    /\ start = [order_ids |-> order_ids, bid_volume |-> bid_volume]
    /\ sent = <<>>

\* Two-sided books close to the replayed one: the quotes computed from them
\* are not 0, whatever the position.
LiveBooks ==
    { [bid_prices |-> <<1000>>, ask_prices |-> <<1100>>],
      [bid_prices |-> <<1100>>, ask_prices |-> <<1200>>] }

\* The quoting cycles of the model: one to cancel a quote and one to replace
\* it, at least.
LiveUpdates == MaxUpdates + 1

\* A quoting cycle is still to come, with order ids for both of its quotes.
UpdateToCome ==
    /\ UpdatesQuoted(bid_volume) < LiveUpdates
    /\ IdsIssued(order_ids) + 2 <= MaxNewOrders

QuotingUpdate ==
    /\ UpdateToCome
    /\ \E book \in LiveBooks :
          /\ UNCHANGED start
          /\ AS_on_order_book_update_message(FUTURE, book.ask_prices,
                                             book.bid_prices)

\* The venue has closed the order: its cancel was requested or it is filled
\* in full.
Closed(id) == id \in cancelled \/ (id \in DOMAIN filled /\ filled[id] = LOT_SIZE)

\* The final status (remaining volume 0) of a closed order the engine tracks.
TerminalStatus(id) ==
    /\ id \in bids \cup asks
    /\ Closed(id)
    /\ UNCHANGED <<venue, start>>
    /\ AS_on_order_status_message(id, 0)

TerminalEvent == \E id \in bids \cup asks : TerminalStatus(id)

\* A resting order is filled in full.
RestingOrderFilled ==
    \E id \in (bids \cup asks) \ cancelled :
        /\ UNCHANGED <<cancelled, start>>
        /\ CanFill(id, LOT_SIZE)
        /\ AS_on_order_filled_message(id, ReplayFillPrice, LOT_SIZE)
        /\ filled' = [filled EXCEPT ![id] = @ + LOT_SIZE]

NextLive ==
    \/ QuotingUpdate
    \/ RestingOrderFilled
    \/ TerminalEvent

\* The steps of QuotingUpdate as bid_volume shows them: it is the only
\* action that appends to bid_volume, and it can always run while a cycle is
\* to come.
QuotingCycle == UpdateToCome /\ bid_volume' = bid_volume + 1

\* Book updates keep arriving, and the final status of every closed order is
\* delivered.
Fairness ==
    /\ WF_bid_volume(QuotingCycle)
    /\ WF_vars(TerminalEvent)

SpecLive == InitLive /\ [][NextLive]_vars /\ Fairness

---------------------------------------------------------------------------
(* archive/momentumArbitrage6.py: initial states and the venue *)

MABooks ==
    { [bid_prices |-> <<>>,     ask_prices |-> <<>>],
      [bid_prices |-> <<0>>,    ask_prices |-> <<1100>>],
      [bid_prices |-> <<1000>>, ask_prices |-> <<1100>>],
      [bid_prices |-> <<1100>>, ask_prices |-> <<1200>>] }

\* momentumArbitrage6.py after three round trips on the bid side whose hedge
\* fills have not arrived yet: the future book 1100/1200 (future_price 1150),
\* then three times the ETF book 1000/1100 (a bid at 1000, 900, 800), its
\* fill in full (a sell hedge of 11 each: orders 2, 4, 7) and its final
\* status (a sell hedge of 10 at position 20: order 6, of 20 at position 30:
\* order 8).  The primary orders 1, 3 and 5 are closed at the venue.
MAHedgesInFlight ==
    /\ order_ids = 9
    /\ bids = {} /\ asks = {}
    /\ ask_id = 0 /\ ask_price = 0 /\ bid_id = 0 /\ bid_price = 800
    /\ position = 30
    /\ hedge_bids = {} /\ hedge_asks = {2, 4, 6, 7, 8}
    /\ hedge_position = 0
    /\ mid_prices = <<>>
    /\ T = T_ONE
    /\ orders_history = [price |-> 0, volume |-> 0]
    /\ pending_hedge_position = -63
    /\ future_price = 1150
    /\ momentum = "None"
    /\ bid_volume = 3
    /\ filled = <<>>
    /\ hedge_orders = (2 :> [side |-> SELL, size |-> 11])
                    @@ (4 :> [side |-> SELL, size |-> 11])
                    @@ (6 :> [side |-> SELL, size |-> 10])
                    @@ (7 :> [side |-> SELL, size |-> 11])
                    @@ (8 :> [side |-> SELL, size |-> 20])
    /\ cancelled = {}

InitMA ==
    /\ Boot
    /\ start = [order_ids |-> order_ids, bid_volume |-> bid_volume]
    /\ sent = <<>>

\* Hedge orders execute on arrival, in the order they were sent: the next
\* hedge fill is for the oldest hedge order with volume left.
OpenHedges == DOMAIN hedge_orders
OldestOpenHedge == CHOOSE id \in OpenHedges : \A other \in OpenHedges : id <= other

MABookUpdate ==
    \E instrument \in Instruments, book \in MABooks :
        /\ UNCHANGED start
        /\ MA_on_order_book_update_message(instrument, book.ask_prices,
                                           book.bid_prices)
        /\ IdsIssued(order_ids') <= MaxNewOrders
        /\ UpdatesQuoted(bid_volume') <= MaxUpdates

MAOrderFilled ==
    \E id \in DOMAIN filled, price \in FillPrices, volume \in FillVolumes :
        /\ UNCHANGED <<cancelled, start>>
        /\ CanFill(id, volume)
        /\ MA_on_order_filled_message(id, price, volume)
        /\ IdsIssued(order_ids') <= MaxNewOrders
        /\ filled' = [filled EXCEPT ![id] = @ + volume]

MAOrderStatus ==
    \E id \in KnownIds(order_ids), remaining_volume \in RemainingVolumes :
        /\ UNCHANGED <<filled, cancelled, start>>
        /\ MA_on_order_status_message(id, remaining_volume)
        /\ IdsIssued(order_ids') <= MaxNewOrders

MAErrorMessage ==
    \E id \in {0} \cup KnownIds(order_ids) :
        /\ UNCHANGED <<filled, cancelled, start>>
        /\ MA_on_error_message(id)
        /\ IdsIssued(order_ids') <= MaxNewOrders

MAHedgeFilled ==
    \E price \in FillPrices :
        /\ UNCHANGED <<filled, cancelled, start>>
        /\ OpenHedges # {}
        /\ LET id == OldestOpenHedge
           IN  /\ MA_on_hedge_filled_message(id, price, hedge_orders[id].size)
               /\ hedge_orders' = [i \in DOMAIN hedge_orders \ {id} |->
                                      hedge_orders[i]]

MATradeTicks ==
    \E instrument \in Instruments :
        /\ UNCHANGED <<venue, start>>
        /\ MA_on_trade_ticks_message(instrument)

NextMA ==
    \/ MABookUpdate
    \/ MAOrderFilled
    \/ MAOrderStatus
    \/ MAErrorMessage
    \/ MAHedgeFilled
    \/ MATradeTicks

SpecMA == InitMA /\ [][NextMA]_vars

\* The same engine, started with hedge orders in flight, under a venue that
\* fills no primary order.
InitMAInFlight ==
    /\ MAHedgesInFlight
    /\ start = [order_ids |-> order_ids, bid_volume |-> bid_volume]
    /\ sent = <<>>

NextMAInFlight ==
    \/ MABookUpdate
    \/ MAOrderStatus
    \/ MAErrorMessage
    \/ MAHedgeFilled
    \/ MATradeTicks

SpecMAInFlight == InitMAInFlight /\ [][NextMAInFlight]_vars

---------------------------------------------------------------------------
(* Properties *)

\* C1.  Whatever book updates, fills, status messages and errors arrive, as
\* long as the venue fills no order beyond its inserted size (CanFill), the
\* position stays within [-POSITION_LIMIT, POSITION_LIMIT].
C1_PositionWithinLimit ==
    -POSITION_LIMIT <= position /\ position <= POSITION_LIMIT

\* C1 at the boundary: a bid inserted after the replayed prefix has been
\* filled in full and the position sits exactly at the limit.
C1_FilledUpToLimit ==
    /\ position = POSITION_LIMIT
    /\ \E id \in DOMAIN filled : filled[id] = LOT_SIZE /\ id >= start.order_ids

\* A step in which the venue delivers a fill of a primary order.
FillStep == \E id \in DOMAIN filled : filled'[id] > filled[id]

\* C2.  Hedge deadband: when the fill callback has run its hedge logic and
\* no hedge order is in flight afterwards, the confirmed hedge position and
\* the position differ from a flat book by at most one lot.
C2_HedgeDeadband ==
    [][(FillStep /\ DOMAIN hedge_orders' = {})
          => Abs(hedge_position' + position') <= LOT_SIZE]_vars

\* C3.  The confirmed plus pending hedge exposure stays within the position
\* limit: no hedge order is issued, on a fill or on a status message, that
\* would take hedge_position + pending_hedge_position beyond it.
C3_HedgeExposureWithinLimit ==
    Abs(hedge_position + pending_hedge_position) <= POSITION_LIMIT

EndedBy(id) ==
    /\ bids' = bids \ {id}
    /\ asks' = asks \ {id}
    /\ bid_id' = (IF bid_id = id THEN 0 ELSE bid_id)
    /\ ask_id' = (IF ask_id = id THEN 0 ELSE ask_id)
    /\ bid_id' # id /\ ask_id' # id
    /\ sent' = <<>>
    /\ UNCHANGED <<order_ids, bid_price, ask_price, position, hedge_bids,
                   hedge_asks, hedge_position, mid_prices, T, orders_history,
                   pending_hedge_position, future_price, momentum, bid_volume>>

\* C5.  An error naming a tracked order leaves the engine exactly as a
\* status message of remaining volume 0 for that order does: the order is
\* no longer tracked and no slot holds it.
C5_ErrorEndsTrackedOrder ==
    [][\A id \in bids \cup asks : AS_on_error_message(id) => EndedBy(id)]_vars

\* C5: an order the venue has not ended is tracked no more, and no slot
\* holds it; without status messages only an error does that.
C5_EndedByError ==
    \E id \in DOMAIN filled :
        id \notin bids \cup asks /\ bid_id # id /\ ask_id # id

\* C6.  The ledger volume equals the position: every fill, whatever order
\* id it carries, moves both by the same signed amount.
C6_LedgerVolumeIsPosition == orders_history.volume = position

\* The lots of order `id` the venue fills in this step.
FilledNow(id) == filled'[id] - filled[id]

\* C7.  Ledger round trip: the ledger volume moves by the signed volume of
\* every fill, and whenever it is back at 0 the ledger price is 0 as well,
\* so fills that net to zero return the ledger to (0, 0).
C7_LedgerRoundTrip ==
    /\ [](orders_history.volume = 0 => orders_history.price = 0)
    /\ [][\A id \in DOMAIN filled :
             FilledNow(id) > 0
                 => orders_history'.volume =
                        orders_history.volume + SignedVolume(id, FilledNow(id))]_vars

\* C7: a bid and an ask of this session have been filled and the fills
\* netted out, leaving the ledger at (0, 0).
C7_RoundTripCompleted ==
    /\ orders_history = [price |-> 0, volume |-> 0]
    /\ \E b, a \in DOMAIN filled :
          /\ b \in bids /\ a \in asks
          /\ filled[b] > 0 /\ filled[b] = filled[a]

\* The ledger C8 prescribes for a fill of signed volume D at fill_price.
WeightedAverage(E, D, fill_price) ==
    [price |-> (Abs(D) * fill_price + Abs(E.volume) * E.price)
                   \div Abs(D + E.volume),
     volume |-> E.volume + D]

\* C8.  A fill whose signed volume D has the sign of the ledger volume, or
\* that meets an empty ledger, leaves the floor of the volume-weighted
\* average price and the summed volume.
C8_SameSignFillAverages ==
    [][\A id \in DOMAIN filled, price \in FillPrices :
          LET D == SignedVolume(id, FilledNow(id))
              E == orders_history
          IN  (/\ FilledNow(id) > 0
               /\ AS_on_order_filled_message(id, price, FilledNow(id))
               /\ \/ (D > 0 /\ E.volume > 0)
                  \/ (D < 0 /\ E.volume < 0)
                  \/ (E.volume = 0 /\ D # 0))
              => orders_history' = WeightedAverage(E, D, price)]_vars

\* C8: the bid of the first update was filled 5 at 100 and 5 at 102 (in
\* either order) from the empty ledger, which leaves (101, 10) and the
\* position 10.
C8_TwoBidFillsAveraged ==
    /\ orders_history = [price |-> 101, volume |-> 10]
    /\ position = 10
    /\ \E id \in bids : filled[id] = 10

\* C9.  When the desired hedge, -position, is more than one lot away from
\* the confirmed hedge position, the fill callback sends exactly one hedge
\* order for the deficit beyond the band: a buy at MAX_ASK_NEAREST_TICK when
\* the hedge is too low, a sell at MIN_BID_NEAREST_TICK when it is too high.
C9_HedgesDeficitBeyondBand ==
    [][FillStep =>
          LET desired == -position'
          IN  /\ desired - hedge_position > LOT_SIZE
                    => sent' = <<HedgeOrder(order_ids, BUY, MAX_ASK_NEAREST_TICK,
                                    desired - LOT_SIZE - hedge_position)>>
              /\ hedge_position - desired > LOT_SIZE
                    => sent' = <<HedgeOrder(order_ids, SELL, MIN_BID_NEAREST_TICK,
                                    hedge_position - desired - LOT_SIZE)>>]_vars

\* C10.  A book update with an empty side or a best price of 0 sends no
\* intent and changes no field of the engine.
C10_NoTwoSidedBookNoEffect ==
    [][\A instrument \in Instruments, book \in MABooks :
          (/\ NoTwoSidedBook(book.bid_prices, book.ask_prices)
           /\ MA_on_order_book_update_message(instrument, book.ask_prices,
                                              book.bid_prices))
              => (sent' = <<>> /\ UNCHANGED engine)]_vars

\* The quotes the pricer computes in a quoting step on `book`, read from the
\* T and the mid-price list the step leaves behind.
QuotedBid(book) ==
    NewBidPrice(MidTimes2(book.bid_prices[1], book.ask_prices[1]),
                InventoryOf(mid_prices', position), VarOf(mid_prices'), T')
QuotedAsk(book) ==
    NewAskPrice(MidTimes2(book.bid_prices[1], book.ask_prices[1]),
                InventoryOf(mid_prices', position), VarOf(mid_prices'), T')

\* A quoting step of ASModel.py on `book`.
QuotingStep(book) ==
    /\ bid_volume' = bid_volume + 1
    /\ ~NoTwoSidedBook(book.bid_prices, book.ask_prices)
    /\ AS_on_order_book_update_message(FUTURE, book.ask_prices, book.bid_prices)

\* The intents of this step that concern the order `id` or insert on `side`.
IntentsFor(id, side) ==
    {i \in 1..Len(sent') :
        \/ (sent'[i].op = "cancel" /\ sent'[i].id = id)
        \/ (sent'[i].op = "insert" /\ sent'[i].side = side)}

\* C11.  Price-equality short-circuit: when a slot holds an order and the
\* newly computed price of that side equals the slot's price, the book
\* update sends no cancel and no insert for that side and leaves the slot's
\* id and price as they were.
C11_SamePriceLeavesSlot ==
    [][\A book \in Books :
          QuotingStep(book) =>
              /\ (bid_id # 0 /\ QuotedBid(book) = bid_price)
                    => /\ IntentsFor(bid_id, BUY) = {}
                       /\ bid_id' = bid_id /\ bid_price' = bid_price
              /\ (ask_id # 0 /\ QuotedAsk(book) = ask_price)
                    => /\ IntentsFor(ask_id, SELL) = {}
                       /\ ask_id' = ask_id /\ ask_price' = ask_price]_vars

\* C11: a quoting update has run and the bid slot still holds the order
\* that rested there before it, at its old price.
C11_BidKeptThroughUpdate ==
    /\ UpdatesQuoted(bid_volume) > 0
    /\ bid_id # 0 /\ bid_id < start.order_ids /\ bid_id \in bids
    /\ bid_price = ReplayBid

\* C12.  A status message of remaining volume 0 for an order that is no
\* longer tracked sends no intent and changes no field of the engine (so a
\* second delivery of a final status leaves what the first one left).
C12_LateStatusIsNoOp ==
    [][\A id \in KnownIds(order_ids) :
          (id \notin bids \cup asks /\ MA_on_order_status_message(id, 0))
              => (sent' = <<>> /\ UNCHANGED engine)]_vars

\* C13.  The time horizon stays in (0, 1]: it starts at 1, loses 0.002 per
\* quoting update and is never 0 or negative.
C13_THorizonPositive == 0 < T /\ T <= T_ONE

\* C14.  The spread delta computed from the variance and the time horizon the
\* engine holds (the values its last quoting update passed to the pricer) is
\* never negative.
C14_SpreadNonNegative == Delta(VarOf(mid_prices), T) >= 0

\* C15.  Quantization rounds up and is idempotent: every quote a quoting update
\* inserts is a multiple of TICK_SIZE_IN_CENTS, quantizing it again returns it
\* unchanged, and in ticks it is the ceiling of the raw price (r - delta / 2
\* for the bid, r + delta / 2 for the ask): at least the raw price and less
\* than one tick above it.
C15_QuotesRoundedUp ==
    [][\A book \in Books :
          QuotingStep(book) =>
              LET h == MidTimes2(book.bid_prices[1], book.ask_prices[1])
                  q == InventoryOf(mid_prices', position)
                  V == VarOf(mid_prices')
              IN  \A i \in 1..Len(sent') :
                      sent'[i].op = "insert" =>
                          LET price == sent'[i].price
                              n == price \div TICK_SIZE_IN_CENTS
                          IN  /\ price % TICK_SIZE_IN_CENTS = 0
                              /\ Ceil(price, TICK_SIZE_IN_CENTS) * TICK_SIZE_IN_CENTS
                                     = price
                              /\ sent'[i].side = BUY =>
                                     /\ RawBidAtMost(n, h, q, V, T')
                                     /\ ~RawBidAtMost(n - 1, h, q, V, T')
                              /\ sent'[i].side = SELL =>
                                     /\ RawAskAtMost(n, h, q, V, T')
                                     /\ ~RawAskAtMost(n - 1, h, q, V, T')]_vars

\* A quoting update has inserted a bid and an ask, each rounded up from a raw
\* price that is not a whole number of ticks.
C15_BothQuotesInserted ==
    /\ UpdatesQuoted(bid_volume) > 0
    /\ \E i, j \in 1..Len(sent) :
          /\ sent[i].op = "insert" /\ sent[i].side = BUY
          /\ sent[j].op = "insert" /\ sent[j].side = SELL

\* C16.  An error message whose order id is 0 or is not a tracked bid or ask
\* is ignored: no intent is sent and no field of the engine changes.
C16_UntrackedErrorIgnored ==
    [][\A id \in {0} \cup KnownIds(order_ids) :
          ((id = 0 \/ id \notin bids \cup asks) /\ AS_on_error_message(id))
              => (sent' = <<>> /\ UNCHANGED engine)]_vars

\* An order the venue knows is tracked no more while another one still is,
\* and the last message brought no intent: errors for the former (and for id
\* 0) arrive in this state and leave it as it is.
C16_ErrorForEndedOrder ==
    /\ \E id \in KnownIds(order_ids) : id \notin bids \cup asks
    /\ bids \cup asks # {}
    /\ sent = <<>>

\* The volume of a hedge order as it was booked: positive for a buy.
HedgeSigned(order) == IF order.side = BUY THEN order.size ELSE 0 - order.size

\* C17.  A rejected hedge order (an error message carrying its id) is
\* reconciled: it is no longer tracked and its volume no longer counts in
\* hedge_position.
C17_RejectedHedgeReconciled ==
    [][\A id \in DOMAIN hedge_orders :
          (AS_on_error_message(id) /\ hedge_orders' = WithoutHedgeOrder(id))
              => /\ id \notin hedge_bids' \cup hedge_asks'
                 /\ hedge_position' = hedge_position - HedgeSigned(hedge_orders[id])]_vars

\* A crossed top of book: both best prices non-zero, best bid >= best ask.
Crossed(book) ==
    /\ ~NoTwoSidedBook(book.bid_prices, book.ask_prices)
    /\ book.bid_prices[1] >= book.ask_prices[1]

\* C18.  A book update with a crossed top of book skips the quoting cycle: no
\* intent is sent and no field of the engine changes.
C18_CrossedBookSkipped ==
    [][\A book \in Books :
          (Crossed(book) /\ AS_on_order_book_update_message(
                                FUTURE, book.ask_prices, book.bid_prices))
              => (sent' = <<>> /\ UNCHANGED engine)]_vars

\* C19.  The mid-price window is bounded: at most lookback samples are stored,
\* the oldest being discarded when a sample is admitted to a full window.
C19_WindowBounded == Len(mid_prices) <= lookback

\* The intents of a step that carry a new order id.
NewOrders == {i \in 1..Len(sent') : sent'[i].op \in {"insert", "hedge"}}

\* C20.  Order ids are unique and strictly increasing across primary and hedge
\* orders: every id sent with an insert or a hedge order is greater than all
\* ids issued before it (all of which are below the counter), and bids, asks,
\* hedge_bids and hedge_asks are pairwise disjoint.
C20_OrderIdsIncrease ==
    /\ [](/\ bids \cap asks = {}
          /\ (bids \cup asks) \cap (hedge_bids \cup hedge_asks) = {}
          /\ hedge_bids \cap hedge_asks = {}
          /\ \A id \in bids \cup asks \cup hedge_bids \cup hedge_asks :
                id < order_ids)
    /\ [][/\ \A i \in NewOrders :
                order_ids <= sent'[i].id /\ sent'[i].id < order_ids'
           /\ \A m, n \in NewOrders : m < n => sent'[m].id < sent'[n].id]_vars

\* Primary orders and a later hedge order, all issued since the initial
\* state, are tracked together.
C20_PrimaryAndHedgeIssued ==
    \E p \in bids \cup asks, h \in hedge_bids \cup hedge_asks :
        start.order_ids <= p /\ p < h

\* The cancel of order `id` is among the intents of this step.
CancelSent(id) == \E i \in 1..Len(sent') : sent'[i] = CancelOrder(id)

\* An insert on `side` is among the intents of this step.
InsertSent(side) ==
    \E i \in 1..Len(sent') : sent'[i].op = "insert" /\ sent'[i].side = side

\* C21.  A cancelled order keeps its slot until its status message with
\* remaining volume 0 is processed: the step that sends the cancel leaves the
\* slot id and price as they are and sends no insert for that side, and an
\* order whose cancel is not yet acknowledged is still the order of its slot.
C21_CancelledSlotKept ==
    /\ [](/\ \A id \in cancelled \cap bids : bid_id = id
          /\ \A id \in cancelled \cap asks : ask_id = id)
    /\ [][/\ (bid_id # 0 /\ CancelSent(bid_id))
               => /\ bid_id' = bid_id /\ bid_price' = bid_price
                  /\ ~InsertSent(BUY)
          /\ (ask_id # 0 /\ CancelSent(ask_id))
               => /\ ask_id' = ask_id /\ ask_price' = ask_price
                  /\ ~InsertSent(SELL)]_vars

\* The inserts on `side` among the intents of this step.
InsertsSent(side) ==
    {i \in 1..Len(sent') : sent'[i].op = "insert" /\ sent'[i].side = side}

C23_StatusFrame ==
    [][\A x \in KnownIds(order_ids) :
          /\ AS_on_order_status_message(x, 0) =>
                 /\ bids' = bids \ {x} /\ asks' = asks \ {x}
                 /\ bid_id' = IF bid_id = x THEN 0 ELSE bid_id
                 /\ ask_id' = IF bid_id # x /\ ask_id = x THEN 0 ELSE ask_id
                 /\ UNCHANGED <<bid_price, ask_price, position, orders_history>>
          /\ \A remaining \in RemainingVolumes \ {0} :
                 AS_on_order_status_message(x, remaining) =>
                     UNCHANGED <<bid_id, ask_id, bid_price, ask_price, bids, asks>>]_vars

\* The resting bid has ended: it is tracked no more and the bid slot id is 0
\* with the slot price still in place, while the ask rests in its slot.
C23_BidEndedAskResting ==
    /\ \E x \in KnownIds(order_ids) : x \notin bids /\ x < ask_id /\ x \notin asks
    /\ bid_id = 0 /\ bid_price = ReplayBid
    /\ ask_id # 0 /\ ask_id \in asks /\ ask_price = ReplayAsk

\* The hedge orders among the intents of this step.
HedgesSent == {i \in 1..Len(sent') : sent'[i].op = "hedge"}

\* The signed volume of a hedge intent: positive for a buy.
IntentSigned(intent) == IF intent.side = BUY THEN intent.size ELSE 0 - intent.size

\* C24.  Issuing a hedge order moves only the pending hedge counter, by the
\* signed size of the order, and never the confirmed hedge position; the
\* confirmed hedge position moves only when the fill of a tracked hedge order
\* is processed, by the volume that leaves the pending counter.
C24_HedgeBookedOnFill ==
    [][/\ \A i \in HedgesSent :
              /\ hedge_position' = hedge_position
              /\ pending_hedge_position' =
                     pending_hedge_position + IntentSigned(sent'[i])
       /\ hedge_position' # hedge_position =>
              /\ \E id \in (hedge_bids \cup hedge_asks) \cap DOMAIN hedge_orders :
                     id \notin DOMAIN hedge_orders'
              /\ hedge_position' - hedge_position =
                     pending_hedge_position - pending_hedge_position']_vars

\* C25.  The time horizon never increases: T changes only in a quoting update
\* (a two-sided FUTURE book update), once in each, and is never greater after
\* a step than before it.
C25_THorizonNonIncreasing ==
    [][/\ T' <= T
       /\ T' # T <=> bid_volume' = bid_volume + 1]_vars

\* The ledger C26 prescribes for a fill of signed volume D, opposite in sign
\* to the ledger volume, at fill_price.
OffsetLedger(E, D, fill_price) ==
    IF Abs(D) < Abs(E.volume) THEN [price |-> E.price, volume |-> E.volume + D]
    ELSE IF Abs(D) = Abs(E.volume) THEN [price |-> 0, volume |-> 0]
    ELSE [price |-> fill_price, volume |-> E.volume + D]

\* C26.  A fill whose signed volume D is opposite in sign to the ledger volume
\* keeps the ledger price and adds D when |D| < |E.volume|, resets the ledger
\* to (0, 0) when |D| = |E.volume|, and otherwise (direction flip) leaves the
\* volume E.volume + D at the fill's price; the averaging branch never
\* divides by zero.
C26_OppositeFillOffsets ==
    [][\A id \in DOMAIN filled, price \in FillPrices :
          LET D == SignedVolume(id, FilledNow(id))
              E == orders_history
          IN  (/\ FilledNow(id) > 0
               /\ AS_on_order_filled_message(id, price, FilledNow(id)))
              => /\ ((D > 0 /\ E.volume < 0) \/ (D < 0 /\ E.volume > 0))
                       => orders_history' = OffsetLedger(E, D, price)
                 /\ ((D > 0 /\ E.volume > 0) \/ (D < 0 /\ E.volume < 0))
                       => Abs(D + E.volume) # 0]_vars

\* A direction flip or a partial offset has happened: a bid filled 5 and an
\* ask filled 10 leave the ledger short 5.
C26_LedgerShortAfterOffset ==
    /\ orders_history.volume = -5 /\ position = -5
    /\ \E b \in bids, a \in asks : filled[b] = 5 /\ filled[a] = 10

\* 400 times the population variance of the samples w / 2: the mean of the
\* squared deviations from the mean, Sum (n w[i] - Sum w)^2 / n^3, times 100.
RECURSIVE SumSqDev(_, _, _)
SumSqDev(w, n, total) ==
    IF w = <<>> THEN 0
    ELSE (n * Head(w) - total) * (n * Head(w) - total) + SumSqDev(Tail(w), n, total)

PopulationVariance400(w) ==
    (100 * SumSqDev(w, Len(w), SumSeq(w))) \div (Len(w) * Len(w) * Len(w))

\* C27.  A mid price is stored only when its integer part is non-zero.  While
\* fewer than lookback = 10 samples are stored the quotes are those of variance
\* 0 and inventory 0 (the reservation price is the mid price, whatever the
\* position); from 10 samples on they are those of the position and of the
\* population variance of the last 10 samples.
C27_VarianceAfterWarmUp ==
    [][\A book \in Books :
          QuotingStep(book) =>
              LET h == MidTimes2(book.bid_prices[1], book.ask_prices[1])
                  n == Len(mid_prices')
                  V == IF n < lookback THEN 0
                       ELSE PopulationVariance400(SubSeq(mid_prices', n - lookback + 1, n))
                  q == IF n < lookback THEN 0 ELSE position
              IN  /\ mid_prices' = IF h \div 2 # 0 THEN Append(mid_prices, h)
                                   ELSE mid_prices
                  /\ \A i \in InsertsSent(BUY) :
                        sent'[i].price = NewBidPrice(h, q, V, T')
                  /\ \A i \in InsertsSent(SELL) :
                        sent'[i].price = NewAskPrice(h, q, V, T')]_vars

\* Both cases have quoted.  Warm-up: long 10 with two samples stored, the
\* quotes of the book 200/300 are the ones of a flat engine (200 and 400).
\* Full window: short 100 with eleven samples, the last ten of variance 0.09,
\* the bid of the book 200/300 is 200.
C27_QuotedInBothPhases ==
    /\ UpdatesQuoted(bid_volume) > 0
    /\ \/ /\ Len(mid_prices) = 2 /\ position = LOT_SIZE
          /\ bid_id # 0 /\ bid_price = 200 /\ ask_id # 0 /\ ask_price = 400
       \/ /\ Len(mid_prices) = lookback + 1 /\ position = -POSITION_LIMIT
          /\ VarOf(mid_prices) > 0
          /\ bid_id # 0 /\ bid_price = 200

\* C28.  The hedge never points the way of the position: after every fill is
\* processed, hedge_position * position <= 0.
C28_HedgeOpposesPosition ==
    [][FillStep => hedge_position' * position' <= 0]_vars

\* Order x was cancelled, is not yet acknowledged, and its slot already holds
\* the replacement.
Replaced(x) ==
    /\ x \in cancelled
    /\ \/ (x \in bids /\ bid_id \notin {0, x} /\ bid_id \in bids)
       \/ (x \in asks /\ ask_id \notin {0, x} /\ ask_id \in asks)

\* C29.  Cancel/replace race: the final status message, or the error, for an
\* order that was cancelled and replaced before the acknowledgement removes
\* only that order's id from the tracked sets and leaves the slot ids and
\* prices, the replacement's among them, as they are.
C29_LateEndKeepsReplacement ==
    [][\A x \in KnownIds(order_ids) :
          (/\ Replaced(x)
           /\ AS_on_order_status_message(x, 0) \/ AS_on_error_message(x))
              => /\ bids' = bids \ {x} /\ asks' = asks \ {x}
                 /\ UNCHANGED <<bid_id, bid_price, ask_id, ask_price>>]_vars

\* The bid of the first update was cancelled and has ended; its replacement,
\* inserted with the cancel, still holds the bid slot.
C29_ReplacementOutlivesOldBid ==
    /\ 1 \in cancelled /\ 1 \notin bids \cup asks
    /\ bid_id >= start.order_ids /\ bid_id \in bids /\ bid_price # ReplayBid

\* C30.  Slot/tracking consistency: a non-zero bid slot id is a tracked bid, a
\* non-zero ask slot id is a tracked ask, and the two slots never hold the
\* same non-zero id.
C30_SlotsAreTracked ==
    /\ bid_id # 0 => bid_id \in bids
    /\ ask_id # 0 => ask_id \in asks
    /\ bid_id # 0 => bid_id # ask_id

\* Both slots hold replacements while the orders they replaced are still
\* tracked, and an order has already ended.
C30_SlotsHeldAmongOlderOrders ==
    /\ bid_id # 0 /\ ask_id # 0
    /\ \E x \in bids \cup asks : x \notin {bid_id, ask_id}
    /\ \E x \in DOMAIN filled : x \notin bids \cup asks

\* The cancels among the intents of this step.
CancelsSent == {i \in 1..Len(sent') : sent'[i].op = "cancel"}

RECURSIVE NetHedgeVolume(_)
NetHedgeVolume(orders) ==
    IF DOMAIN orders = {} THEN 0
    ELSE LET id == CHOOSE i \in DOMAIN orders : TRUE
         IN  HedgeSigned(orders[id])
                 + NetHedgeVolume([i \in DOMAIN orders \ {id} |-> orders[i]])

\* The net signed volume of the hedge orders sent in this step, up to the
\* intent of index i.
RECURSIVE NetHedgeSent(_)
NetHedgeSent(i) ==
    IF i = 0 THEN 0
    ELSE (IF sent'[i].op = "hedge" THEN IntentSigned(sent'[i]) ELSE 0)
             + NetHedgeSent(i - 1)

\* C32.  Hedge conservation: hedge_position + pending_hedge_position moves in
\* every step by the net signed volume of the hedge orders the step issues, so
\* it equals the net volume of all hedge orders issued so far, and a hedge
\* fill leaves it unchanged; pending_hedge_position is the net volume of the
\* hedge orders not yet filled, 0 once every issued order is filled in full.
C32_HedgeConservation ==
    /\ [](pending_hedge_position = NetHedgeVolume(hedge_orders))
    /\ [][(hedge_position' + pending_hedge_position')
             - (hedge_position + pending_hedge_position)
          = NetHedgeSent(Len(sent'))]_vars

\* Every hedge order issued has been filled in full: the hedge is booked and
\* nothing is pending.
C32_AllHedgesFilled ==
    /\ hedge_asks \cup hedge_bids # {}
    /\ hedge_orders = <<>>
    /\ hedge_position # 0 /\ pending_hedge_position = 0

\* C33.  Quotes never cross: in every quoting cycle the bid price computed is
\* strictly below the ask price computed.
C33_BidBelowAsk ==
    [][\A book \in Books \cup LateBooks :
          QuotingStep(book) => QuotedBid(book) < QuotedAsk(book)]_vars

\* The room the claim names on each side.
BidRoom == position <= POSITION_LIMIT - LOT_SIZE
AskRoom == position >= -POSITION_LIMIT + LOT_SIZE

\* C34.  Quote liveness: while book updates keep arriving and final statuses
\* are delivered, a side with room does not stay without a quote.  An empty
\* slot whose side still tracks orders sees them released, and an empty slot
\* whose side tracks nothing is filled by a quoting cycle unless the position
\* leaves the room first; the same for bids and for asks.
C34_QuoteLiveness ==
    /\ (bid_id = 0 /\ bids # {}) ~> (bid_id # 0 \/ bids = {})
    /\ (bid_id = 0 /\ bids = {} /\ BidRoom /\ UpdateToCome)
           ~> (bid_id # 0 \/ ~BidRoom)
    /\ (ask_id = 0 /\ asks # {}) ~> (ask_id # 0 \/ asks = {})
    /\ (ask_id = 0 /\ asks = {} /\ AskRoom /\ UpdateToCome)
           ~> (ask_id # 0 \/ ~AskRoom)

\* One order short of the long limit an update cancelled both quotes and
\* replaced the ask at once (the next order id); the bid was replaced by a
\* later update, after the final status of the cancelled bid.
C34_BidRequotedAfterRelease ==
    /\ position = POSITION_LIMIT - LOT_SIZE
    /\ start.order_ids - 2 \in cancelled
    /\ bid_id = start.order_ids + 1
    /\ bids = {bid_id}

=============================================================================
